---- MODULE Spec2Model ----
(***************************************************************************)
(* containerbuddy/ips.go: resolution of the container's IP address from an *)
(* ordered list of interface specifications.                               *)
(*                                                                         *)
(* Text is a sequence of tokens.  A token is one character ("e", "[",     *)
(* "%"), except that a message literal of the program that holds no '%'    *)
(* ("Unable to parse interface spec: ") is kept as one token.  Inputs are  *)
(* always sequences of single characters.  An IP address is its sequence   *)
(* of bytes (4 or 16 of them), as net.IP is.                               *)
(***************************************************************************)
EXTENDS Integers, Sequences, FiniteSets, TLC

VARIABLES
    host,          \* what the operating system reports: net.Interfaces and Addrs
    op,            \* the function the last call entered
    pc,            \* position of the call: "start", a line of GetIP, "done"
    specList,      \* GetIP / parseInterfaceSpecs argument
    specs,         \* parsed rules
    interfaceIPs,  \* address list handed to the selector
    enumerated,    \* whether the call in progress has run getinterfaceIPs
    interfaceIPsErr, \* error returned by getinterfaceIPs
    visited,       \* the steps findIPWithSpecs took: rule, position, counter
    rendered,      \* String() of the rule parseInterfaceSpec returned
    matched,       \* result of the last Match call
    matchArg,      \* its arguments
    ip,            \* returned address text
    err            \* returned error

vars == <<host, op, pc, specList, specs, interfaceIPs, enumerated,
          interfaceIPsErr, visited, rendered, matched, matchArg, ip, err>>

----------------------------------------------------------------------------
(* Bounds of the model *)

\* longest specification list a caller passes
MaxSpecs == 2
\* most interfaces the host reports
MaxIfaces == 2
\* longest address list handed directly to findIPWithSpecs
MaxIPs == 3

----------------------------------------------------------------------------
(* Characters and text *)

Digits == <<"0", "1", "2", "3", "4", "5", "6", "7", "8", "9">>
Lower == <<"a", "b", "c", "d", "e", "f", "g", "h", "i", "j", "k", "l", "m",
           "n", "o", "p", "q", "r", "s", "t", "u", "v", "w", "x", "y", "z">>
Upper == <<"A", "B", "C", "D", "E", "F", "G", "H", "I", "J", "K", "L", "M",
           "N", "O", "P", "Q", "R", "S", "T", "U", "V", "W", "X", "Y", "Z">>

\* the characters of the model in byte order (strings.Compare is bytewise)
Ascii == <<" ", "%", "*", ".", "/">> \o Digits \o <<":">> \o Upper
         \o <<"[", "]", "_">> \o Lower

Range(s) == {s[i] : i \in 1..Len(s)}

DigitChars == Range(Digits)

\* regexp \w: [0-9A-Za-z_]
WordChars == Range(Digits) \cup Range(Lower) \cup Range(Upper) \cup {"_"}

HexChars == Range(Digits) \cup {Lower[i] : i \in 1..6} \cup {Upper[i] : i \in 1..6}

\* the code of each character of the model
OrdOf == [c \in Range(Ascii) |-> CHOOSE i \in 1..Len(Ascii) : Ascii[i] = c]

IsDigit(c) == c \in DigitChars

DigitVal(c) == (CHOOSE i \in 1..10 : Digits[i] = c) - 1

Ord(c) == OrdOf[c]

IsWord(c) == c \in WordChars

IsHex(c) == c \in HexChars

HexVal(c) == IF IsDigit(c) THEN DigitVal(c)
             ELSE 9 + (CHOOSE i \in 1..6 : Lower[i] = c \/ Upper[i] = c)

\* s[from..to], empty when from > to
Slice(s, from, to) == IF from > to THEN <<>> ELSE SubSeq(s, from, to)

\* bytes.IndexByte / strings.IndexByte: first position of c in s, 0 when absent
IndexByte(s, c) ==
    IF \E i \in 1..Len(s) : s[i] = c
    THEN CHOOSE i \in 1..Len(s) : s[i] = c /\ \A j \in 1..(i - 1) : s[j] # c
    ELSE 0

RECURSIVE Split(_, _)
\* strings.Split(s, sep) for a one-character separator
Split(s, sep) ==
    LET i == IndexByte(s, sep)
    IN  IF i = 0 THEN <<s>>
        ELSE <<Slice(s, 1, i - 1)>> \o Split(Slice(s, i + 1, Len(s)), sep)

RECURSIVE Join(_, _)
\* strings.Join(parts, sep)
Join(parts, sep) ==
    IF Len(parts) = 0 THEN <<>>
    ELSE IF Len(parts) = 1 THEN parts[1]
    ELSE parts[1] \o sep \o Join(Tail(parts), sep)

RECURSIVE CompareInts(_, _)
\* bytes.Compare: -1, 0 or 1
CompareInts(a, b) ==
    IF Len(a) = 0 /\ Len(b) = 0 THEN 0
    ELSE IF Len(a) = 0 THEN -1
    ELSE IF Len(b) = 0 THEN 1
    ELSE IF a[1] < b[1] THEN -1
    ELSE IF a[1] > b[1] THEN 1
    ELSE CompareInts(Tail(a), Tail(b))

\* strings.Compare
Compare(a, b) == CompareInts([i \in 1..Len(a) |-> Ord(a[i])],
                             [i \in 1..Len(b) |-> Ord(b[i])])

RECURSIVE Itoa(_)
\* decimal digits of a natural number
Itoa(n) == IF n < 10 THEN <<Digits[n + 1]>>
           ELSE Itoa(n \div 10) \o <<Digits[(n % 10) + 1]>>

RECURSIVE StripZeros(_)
StripZeros(d) == IF Len(d) > 1 /\ d[1] = "0" THEN StripZeros(Tail(d)) ELSE d

\* digits of the largest int, 1<<63 - 1
MaxIntDigits == <<"9", "2", "2", "3", "3", "7", "2", "0", "3", "6", "8", "5",
                  "4", "7", "7", "5", "8", "0", "7">>

\* strconv.Atoi on a string of decimal digits (all the pattern \d+ lets
\* through).  The value is kept as its digits without leading zeros: it can
\* exceed what TLC's integers hold.
Atoi(d) ==
    LET c == StripZeros(d)
        inRange == \/ Len(c) < Len(MaxIntDigits)
                   \/ /\ Len(c) = Len(MaxIntDigits)
                      /\ Compare(c, MaxIntDigits) <= 0
    IN  [ok |-> inRange, val |-> IF inRange THEN c ELSE <<"0">>]

----------------------------------------------------------------------------
(* Errors and package fmt *)

\* a Go error value: nil, or a message
Nil == [isNil |-> TRUE, msg |-> <<>>]
Error(m) == [isNil |-> FALSE, msg |-> m]

\* what fmt reads as flags, width and precision between '%' and the verb
IsFmtFlag(c) == IsDigit(c) \/ c \in {" ", "."}

RECURSIVE SkipFmtFlags(_)
\* the format from its verb on
SkipFmtFlags(f) ==
    IF Len(f) > 0 /\ IsFmtFlag(f[1]) THEN SkipFmtFlags(Tail(f)) ELSE f

RECURSIVE Sprintf0(_)

\* what a '%' prints, given the format from its verb on, and the rest
FmtVerb(after) ==
    IF Len(after) = 0 THEN <<"%!(NOVERB)">>
    ELSE IF after[1] = "%" THEN <<"%">> \o Sprintf0(Tail(after))
    ELSE <<"%!", after[1], "(MISSING)">> \o Sprintf0(Tail(after))

\* the format printed, its first '%' being at i
SprintfAt(f, i) ==
    IF i = 0 THEN f
    ELSE Slice(f, 1, i - 1) \o FmtVerb(SkipFmtFlags(Slice(f, i + 1, Len(f))))

\* fmt.Sprintf(format) with no operands: a verb prints as %!v(MISSING), %% as
\* %, a '%' that ends the format as %!(NOVERB).  (Formats of the model hold no
\* explicit argument index "%[" and no '#', '+', '-', '*' flag.)
Sprintf0(f) == SprintfAt(f, IndexByte(f, "%"))

\* fmt.Errorf(format) with no operands
Errorf0(f) == Error(Sprintf0(f))

\* fmt's %s of a slice whose elements print as the given texts
FormatSlice(texts) == <<"[">> \o Join(texts, <<" ">>) \o <<"]">>

----------------------------------------------------------------------------
(* package net: addresses and networks *)

IPv4len == 4
IPv6len == 16

Zeros(n) == [i \in 1..n |-> 0]

\* the 12 bytes that start an IPv4 address in its 16-byte form
v4InV6Prefix == <<0, 0, 0, 0, 0, 0, 0, 0, 0, 0, 255, 255>>

IPv6loopback == <<0, 0, 0, 0, 0, 0, 0, 0, 0, 0, 0, 0, 0, 0, 0, 1>>

\* IP.To4: the 4-byte form, or nil (the empty slice) when ip is no IPv4 address
To4(addr) ==
    IF Len(addr) = IPv4len THEN addr
    ELSE IF Len(addr) = IPv6len /\ SubSeq(addr, 1, 12) = v4InV6Prefix
    THEN SubSeq(addr, 13, 16)
    ELSE <<>>

\* IP.To16: the 16-byte form, or nil
To16(addr) ==
    IF Len(addr) = IPv4len THEN v4InV6Prefix \o addr
    ELSE IF Len(addr) = IPv6len THEN addr
    ELSE <<>>

\* IP.IsLoopback, given ip.To4()
IsLoopback4(addr, ip4) == IF ip4 # <<>> THEN ip4[1] = 127 ELSE addr = IPv6loopback

\* IP.IsLoopback
IsLoopback(addr) == IsLoopback4(addr, To4(addr))

HexDigits == Digits \o SubSeq(Lower, 1, 6)

RECURSIVE Hex(_)
\* lower-case hexadecimal digits of n, no leading zeros
Hex(n) ==
    IF n < 16 THEN <<HexDigits[n + 1]>>
    ELSE Hex(n \div 16) \o <<HexDigits[(n % 16) + 1]>>

\* the eight 16-bit groups of a 16-byte address
Groups(addr) == [g \in 1..8 |-> addr[2 * g - 1] * 256 + addr[2 * g]]

\* length of the run of zero groups that starts at group i
ZeroRun(g, i) == Cardinality({j \in i..8 : \A k \in i..j : g[k] = 0})

\* the groups from..to in hexadecimal, colon-separated
HexGroups(g, from, to) ==
    Join([i \in 1..(to - from + 1) |-> Hex(g[from + i - 1])], <<":">>)

\* the text of an IPv6 address whose longest run of zero groups starts at e0
\* and has n groups
CompressAt(g, e0, n) ==
    IF n < 2 THEN HexGroups(g, 1, 8)
    ELSE HexGroups(g, 1, e0 - 1) \o <<":", ":">> \o HexGroups(g, e0 + n, 8)

\* the length of the run of zero groups that starts at each group
ZeroRuns(g) == [i \in 1..8 |-> ZeroRun(g, i)]

\* the start of the first of the longest runs of zero groups
LongestZeroRun(runs) ==
    CHOOSE i \in 1..8 :
        \A j \in 1..8 : runs[i] > runs[j] \/ (runs[i] = runs[j] /\ i <= j)

\* the text of an IPv6 address, given its groups and their zero runs
IPv6Runs(g, runs) == CompressAt(g, LongestZeroRun(runs), runs[LongestZeroRun(runs)])

\* the text of an IPv6 address, given its groups
IPv6Text(g) == IPv6Runs(g, ZeroRuns(g))

\* the text of an IPv4 address, given its four bytes
IPv4Text(ip4) == Join([i \in 1..4 |-> Itoa(ip4[i])], <<".">>)

\* IP.String, given ip.To4()
IPToString4(addr, ip4) ==
    IF Len(addr) = 0 THEN <<"<nil>">>
    ELSE IF ip4 # <<>> THEN IPv4Text(ip4)
    ELSE IPv6Text(Groups(addr))

\* IP.String
IPToString(addr) == IPToString4(addr, To4(addr))

\* one dotted-decimal field: 1 to 3 digits, at most 255, no leading zero
IsOctet(f) == /\ Len(f) \in 1..3
              /\ \A i \in 1..Len(f) : IsDigit(f[i])
              /\ (Len(f) > 1 => f[1] # "0")
              /\ (Len(f) < 3 \/ Compare(f, <<"2", "5", "5">>) <= 0)

RECURSIVE DecVal(_)
\* value of a short string of decimal digits
DecVal(d) == IF Len(d) = 0 THEN 0
             ELSE DecVal(SubSeq(d, 1, Len(d) - 1)) * 10 + DigitVal(d[Len(d)])

\* the bytes of the four fields of a dotted-decimal address
IPv4Fields(f) ==
    IF Len(f) = 4 /\ \A i \in 1..4 : IsOctet(f[i])
    THEN [ok |-> TRUE, bytes |-> [i \in 1..4 |-> DecVal(f[i])]]
    ELSE [ok |-> FALSE, bytes |-> <<>>]

\* the four bytes of a dotted-decimal IPv4 address
ParseIPv4(s) == IPv4Fields(Split(s, "."))

IsHexGroup(f) == Len(f) \in 1..4 /\ \A i \in 1..Len(f) : IsHex(f[i])

RECURSIVE HexValue(_)
HexValue(d) == IF Len(d) = 0 THEN 0
               ELSE HexValue(SubSeq(d, 1, Len(d) - 1)) * 16 + HexVal(d[Len(d)])

\* the groups of the first m fields, each in hexadecimal, and then of v4 tail
HexFields(f, m, tail) ==
    IF \A i \in 1..m : IsHexGroup(f[i])
    THEN [ok |-> TRUE, groups |-> [i \in 1..m |-> HexValue(f[i])] \o tail]
    ELSE [ok |-> FALSE, groups |-> <<>>]

\* the groups of colon-separated fields whose last one parsed as v4
GroupFields(f, allowV4, v4) ==
    IF allowV4 /\ v4.ok
    THEN HexFields(f, Len(f) - 1, <<v4.bytes[1] * 256 + v4.bytes[2],
                                    v4.bytes[3] * 256 + v4.bytes[4]>>)
    ELSE HexFields(f, Len(f), <<>>)

\* the groups of the last field read as a dotted-decimal address, and of the
\* fields before it
GroupsOfFields(f, allowV4) == GroupFields(f, allowV4, ParseIPv4(f[Len(f)]))

\* the 16-bit groups of a colon-separated run of an IPv6 address; with allowV4
\* its last field may be a dotted-decimal IPv4 address (two groups)
ParseGroups(t, allowV4) ==
    IF Len(t) = 0 THEN [ok |-> TRUE, groups |-> <<>>]
    ELSE GroupsOfFields(Split(t, ":"), allowV4)

\* position of the first "::" of s, 0 when it has none
IndexEllipsis(s) ==
    IF \E i \in 1..(Len(s) - 1) : s[i] = ":" /\ s[i + 1] = ":"
    THEN CHOOSE i \in 1..(Len(s) - 1) :
            /\ s[i] = ":" /\ s[i + 1] = ":"
            /\ \A j \in 1..(i - 1) : ~(s[j] = ":" /\ s[j + 1] = ":")
    ELSE 0

\* the bytes of eight groups
GroupBytes(g) == [i \in 1..16 |-> IF i % 2 = 1 THEN g[(i + 1) \div 2] \div 256
                                  ELSE g[i \div 2] % 256]

\* the address whose groups are left, then `fill` zero groups, then right
JoinGroups(ok, left, fill, right) ==
    IF ok THEN [ok |-> TRUE, bytes |-> GroupBytes(left \o Zeros(fill) \o right)]
    ELSE [ok |-> FALSE, bytes |-> <<>>]

\* the address with the groups left and right of its "::"
Ellipsis(left, right) ==
    JoinGroups(left.ok /\ right.ok /\ Len(left.groups) + Len(right.groups) <= 7,
               left.groups, 8 - (Len(left.groups) + Len(right.groups)),
               right.groups)

\* the address written as all its groups
NoEllipsis(all) == JoinGroups(all.ok /\ Len(all.groups) = 8, all.groups, 0, <<>>)

\* the address of s, whose first "::" is at dc
ParseIPv6At(s, dc) ==
    IF dc = 0 THEN NoEllipsis(ParseGroups(s, TRUE))
    ELSE Ellipsis(ParseGroups(Slice(s, 1, dc - 1), FALSE),
                  ParseGroups(Slice(s, dc + 2, Len(s)), TRUE))

\* the 16 bytes of a textual IPv6 address
ParseIPv6(s) == ParseIPv6At(s, IndexEllipsis(s))

\* byte i (from 1) of a mask of `ones` leading one bits
MaskByte(ones, i) ==
    IF ones - 8 * (i - 1) >= 8 THEN 255
    ELSE IF ones - 8 * (i - 1) <= 0 THEN 0
    ELSE 256 - 2 ^ (8 - (ones - 8 * (i - 1)))

\* net.CIDRMask(ones, bits)
CIDRMask(ones, bits) == [i \in 1..(bits \div 8) |-> MaskByte(ones, i)]

\* b & m for a byte m of a CIDR mask (leading ones only)
AndMask(b, m) == b - (b % (256 - m))

\* a[i] & m[i] for all i, nil when the lengths differ
AndMasks(a, m) ==
    IF Len(a) # Len(m) THEN <<>> ELSE [i \in 1..Len(a) |-> AndMask(a[i], m[i])]

\* IP.Mask(mask)
Mask(addr, mask) ==
    IF Len(mask) = IPv6len /\ Len(addr) = IPv4len /\ \A i \in 1..12 : mask[i] = 255
    THEN AndMasks(addr, SubSeq(mask, 13, 16))
    ELSE IF /\ Len(mask) = IPv4len /\ Len(addr) = IPv6len
            /\ SubSeq(addr, 1, 12) = v4InV6Prefix
    THEN AndMasks(SubSeq(addr, 13, 16), mask)
    ELSE AndMasks(addr, mask)

\* a nil *net.IPNet
NilNet == [isNil |-> TRUE, IP |-> <<>>, Mask |-> <<>>]

\* what ParseCIDR(s) returns on failure
CIDRError(s) == [ok |-> FALSE, ip |-> <<>>, net |-> NilNet,
                 err |-> Error(<<"invalid CIDR address: ">> \o s)]

\* what ParseCIDR returns for the address ip16 and the mask cm
CIDROk(ip16, cm) ==
    [ok |-> TRUE, ip |-> ip16,
     net |-> [isNil |-> FALSE, IP |-> Mask(ip16, cm), Mask |-> cm],
     err |-> Nil]

\* the prefix length: decimal digits, at most `bits`
IsPrefixLen(mask, bits) ==
    /\ Len(mask) > 0
    /\ \A j \in 1..Len(mask) : IsDigit(mask[j])
    /\ Len(StripZeros(mask)) <= 3
    /\ DecVal(StripZeros(mask)) <= bits

\* ParseCIDR of s, given its parsed address, the text of its prefix length and
\* the bits of its address family
CIDRParts(s, p, mask, bits) ==
    IF p.ok /\ IsPrefixLen(mask, bits)
    THEN CIDROk(To16(p.bytes), CIDRMask(DecVal(StripZeros(mask)), bits))
    ELSE CIDRError(s)

\* ParseCIDR of s, given its address and the text of its prefix length
CIDRSplit(s, addr, mask) ==
    IF IndexByte(addr, ":") # 0
    THEN CIDRParts(s, ParseIPv6(addr), mask, 8 * IPv6len)
    ELSE CIDRParts(s, ParseIPv4(addr), mask, 8 * IPv4len)

\* ParseCIDR of s, whose first '/' is at i
CIDRAt(s, i) ==
    IF i = 0 THEN CIDRError(s)
    ELSE CIDRSplit(s, Slice(s, 1, i - 1), Slice(s, i + 1, Len(s)))

\* net.ParseCIDR(s): the address in its 16-byte form and the network
ParseCIDR(s) == CIDRAt(s, IndexByte(s, "/"))

\* the mask networkNumberAndMask returns for a network number of n bytes
NetworkMask(m, n) ==
    IF Len(m) = IPv4len THEN (IF n # IPv4len THEN <<>> ELSE m)
    ELSE IF Len(m) = IPv6len THEN (IF n = IPv4len THEN SubSeq(m, 13, 16) ELSE m)
    ELSE <<>>

\* networkNumberAndMask, given n.IP.To4()
NumberAndMask(n, ip4) ==
    IF ip4 # <<>> THEN [ip |-> ip4, mask |-> NetworkMask(n.Mask, IPv4len)]
    ELSE IF Len(n.IP) = IPv6len
    THEN [ip |-> n.IP, mask |-> NetworkMask(n.Mask, IPv6len)]
    ELSE [ip |-> <<>>, mask |-> <<>>]

\* networkNumberAndMask(n)
networkNumberAndMask(n) == NumberAndMask(n, To4(n.IP))

\* the loop of Contains over the bytes
SameNetwork(nm, a) ==
    /\ nm.mask # <<>>
    /\ Len(a) = Len(nm.ip)
    /\ \A i \in 1..Len(a) : AndMask(nm.ip[i], nm.mask[i]) = AndMask(a[i], nm.mask[i])

\* Contains, given ip.To4()
Contains4(n, addr, ip4) ==
    SameNetwork(networkNumberAndMask(n), IF ip4 # <<>> THEN ip4 ELSE addr)

\* (*IPNet).Contains(ip)
Contains(n, addr) == Contains4(n, addr, To4(addr))

----------------------------------------------------------------------------
(* ips.go: rules *)

\* the zero value of struct interfaceSpec
ZeroSpec == [Spec |-> <<>>, IPv6 |-> FALSE, Name |-> <<>>, Network |-> NilNet,
             Index |-> <<"0">>, HasIndex |-> FALSE]

\* the name a wildcard rule carries
Wildcard == <<"*">>

\* interfaceSpec.String
String(spec) == spec.Spec

\* interfaceIP.IsIPv4
IsIPv4(iip) == To4(iip.IP) # <<>>

\* interfaceIP.IPString, given iip.To4()
IPString4(iip, v4) == IF v4 # <<>> THEN IPToString(v4) ELSE IPToString(iip.IP)

\* interfaceIP.IPString
IPString(iip) == IPString4(iip, To4(iip.IP))

\* interfaceIP.String
IIPString(iip) == iip.Name \o <<":">> \o IPString(iip)

\* Match with a rule that asks for no IP version taking an address of either
Match_Fallback(spec, index, iip) ==
    IF spec.Name = iip.Name \/ spec.Name = Wildcard
    THEN IF spec.HasIndex THEN spec.Index = Itoa(index)
         ELSE IF spec.Name = Wildcard /\ IsLoopback(iip.IP) THEN FALSE
         ELSE spec.IPv6 # IsIPv4(iip) \/ (~spec.IPv6 /\ spec.Spec = spec.Name)
    ELSE ~spec.Network.isNil /\ Contains(spec.Network, iip.IP)

\* Match without the test for loopback addresses
Match_NoLoopbackTest(spec, index, iip) ==
    IF spec.Name = iip.Name \/ spec.Name = Wildcard
    THEN IF spec.HasIndex THEN spec.Index = Itoa(index)
         ELSE spec.IPv6 # IsIPv4(iip)
    ELSE ~spec.Network.isNil /\ Contains(spec.Network, iip.IP)

\* interfaceSpec.Match
Match(spec, index, iip) ==
    IF spec.Name = iip.Name \/ spec.Name = Wildcard
    THEN IF spec.HasIndex THEN spec.Index = Itoa(index)
         ELSE IF spec.Name = Wildcard /\ IsLoopback(iip.IP) THEN FALSE
         ELSE spec.IPv6 # IsIPv4(iip)
    ELSE ~spec.Network.isNil /\ Contains(spec.Network, iip.IP)

\* the submatches when the pattern matches
Submatch(name, index, version) ==
    [ok |-> TRUE, Name |-> name, Index |-> index, Version |-> version]

NoSubmatch == [ok |-> FALSE, Name |-> <<>>, Index |-> <<>>, Version |-> <<>>]

\* \[(?P<Index>\d+)\] as the whole of rest
IsIndexPart(rest) ==
    /\ Len(rest) >= 3
    /\ rest[1] = "[" /\ rest[Len(rest)] = "]"
    /\ \A i \in 2..(Len(rest) - 1) : IsDigit(rest[i])

\* :(?P<Version>inet6?) as the whole of rest
IsVersionPart(rest) == rest \in {<<":", "i", "n", "e", "t">>,
                                 <<":", "i", "n", "e", "t", "6">>}

\* the match of what follows the name
MatchRest(name, rest) ==
    IF Len(name) = 0 THEN NoSubmatch
    ELSE IF Len(rest) = 0 THEN Submatch(name, <<>>, <<>>)
    ELSE IF IsIndexPart(rest) THEN Submatch(name, Slice(rest, 2, Len(rest) - 1), <<>>)
    ELSE IF IsVersionPart(rest) THEN Submatch(name, <<>>, Tail(rest))
    ELSE NoSubmatch

\* the match of s, whose longest prefix of \w characters has n of them
MatchAt(s, n) == MatchRest(Slice(s, 1, n), Slice(s, n + 1, Len(s)))

\* ifaceSpec.FindStringSubmatch:
\*   ^(?P<Name>\w+)(?:(?:\[(?P<Index>\d+)\])|(?::(?P<Version>inet6?)))?$
FindStringSubmatch(s) ==
    MatchAt(s, Cardinality({i \in 1..Len(s) : \A j \in 1..i : IsWord(s[j])}))

\* parseInterfaceSpec, lines 148-154: the rule has an index, i its Atoi
parseIndexed(spec, match, i) ==
    IF ~i.ok
    THEN [spec |-> [ZeroSpec EXCEPT !.Spec = spec],
          err |-> Error(<<"Unable to parse index ">> \o match.Index
                        \o <<" in ">> \o spec)]
    ELSE [spec |-> [ZeroSpec EXCEPT !.Spec = spec, !.Name = match.Name,
                                    !.Index = i.val, !.HasIndex = TRUE],
          err |-> Nil]

\* parseInterfaceSpec, lines 144-162: the pattern matched
parseMatched(spec, match) ==
    IF match.Index # <<>> THEN parseIndexed(spec, match, Atoi(match.Index))
    ELSE IF match.Version # <<>>
    THEN IF match.Version = <<"i", "n", "e", "t">>
         THEN [spec |-> [ZeroSpec EXCEPT !.Spec = spec, !.Name = match.Name,
                                         !.IPv6 = FALSE],
               err |-> Nil]
         ELSE [spec |-> [ZeroSpec EXCEPT !.Spec = spec, !.Name = match.Name,
                                         !.IPv6 = TRUE],
               err |-> Nil]
    ELSE [spec |-> [ZeroSpec EXCEPT !.Spec = spec, !.Name = match.Name,
                                    !.IPv6 = FALSE],
          err |-> Nil]

\* parseInterfaceSpec, lines 163-166: the pattern did not match
parseNetwork(spec, cidr) ==
    IF cidr.ok
    THEN [spec |-> [ZeroSpec EXCEPT !.Spec = spec, !.Network = cidr.net],
          err |-> Nil]
    ELSE [spec |-> [ZeroSpec EXCEPT !.Spec = spec],
          err |-> Error(<<"Unable to parse interface spec: ">> \o spec)]

\* parseInterfaceSpec, lines 144-166
parseOther(spec, match) ==
    IF match.ok THEN parseMatched(spec, match)
    ELSE parseNetwork(spec, ParseCIDR(spec))

\* parseInterfaceSpec
parseInterfaceSpec(spec) ==
    IF spec = <<"i", "n", "e", "t">>
    THEN [spec |-> [ZeroSpec EXCEPT !.IPv6 = FALSE, !.Name = Wildcard], err |-> Nil]
    ELSE IF spec = <<"i", "n", "e", "t", "6">>
    THEN [spec |-> [ZeroSpec EXCEPT !.IPv6 = TRUE, !.Name = Wildcard], err |-> Nil]
    ELSE parseOther(spec, FindStringSubmatch(spec))

\* one turn of the loop of parseInterfaceSpecs: r is what parseInterfaceSpec
\* returned for the item
parseItem(acc, r) ==
    IF ~r.err.isNil THEN [acc EXCEPT !.errors = Append(@, r.err.msg)]
    ELSE [acc EXCEPT !.specs = Append(@, r.spec)]

RECURSIVE parseLoop(_, _)
\* the loop of parseInterfaceSpecs over the items still to parse
parseLoop(interfaces, acc) ==
    IF Len(interfaces) = 0 THEN acc
    ELSE parseLoop(Tail(interfaces),
                   parseItem(acc, parseInterfaceSpec(Head(interfaces))))

\* parseInterfaceSpecs, lines 124-129
parseResult(r) ==
    IF Len(r.errors) > 0
    THEN [specs |-> r.specs, err |-> Errorf0(Join(r.errors, <<"\n">>))]
    ELSE [specs |-> r.specs, err |-> Nil]

\* parseInterfaceSpecs
parseInterfaceSpecs(interfaces) ==
    parseResult(parseLoop(interfaces, [errors |-> <<>>, specs |-> <<>>]))

----------------------------------------------------------------------------
(* ips.go: enumeration *)

\* ByInterfaceThenIP.Less, given cmp
LessCmp(cmp, iip1, iip2) ==
    IF cmp # 0 THEN cmp < 0
    ELSE CompareInts(To16(iip1.IP), To16(iip2.IP)) < 0

\* ByInterfaceThenIP.Less on two entries
Less(iip1, iip2) == LessCmp(Compare(iip1.Name, iip2.Name), iip1, iip2)

RECURSIVE Insert(_, _)
\* x put into the sorted list after every entry it is not less than
Insert(x, sorted) ==
    IF Len(sorted) = 0 THEN <<x>>
    ELSE IF Less(x, Head(sorted)) THEN <<x>> \o sorted
    ELSE <<Head(sorted)>> \o Insert(x, Tail(sorted))

RECURSIVE StableSort(_)
\* sort.Stable(ByInterfaceThenIP(list)): entries that are not Less one than
\* the other keep their order
StableSort(list) ==
    IF Len(list) = 0 THEN <<>>
    ELSE Insert(list[Len(list)], StableSort(SubSeq(list, 1, Len(list) - 1)))

\* one turn of the loop over the entries of an address string: p is what
\* ParseCIDR returned for the entry
splitItem(name, acc, p) ==
    IF ~p.ok THEN [acc EXCEPT !.errors = Append(@, p.err.msg)]
    ELSE [acc EXCEPT !.ips = Append(@, [Name |-> name, IP |-> p.ip])]

RECURSIVE splitLoop(_, _, _)
\* the loop over the whitespace-separated entries of one address string
splitLoop(name, parts, acc) ==
    IF Len(parts) = 0 THEN acc
    ELSE splitLoop(name, Tail(parts), splitItem(name, acc, ParseCIDR(Head(parts))))

RECURSIVE addrLoop(_, _, _)
\* the loop over the addresses of one interface
addrLoop(name, ipAddrs, acc) ==
    IF Len(ipAddrs) = 0 THEN acc
    ELSE addrLoop(name, Tail(ipAddrs),
                  splitLoop(name, Split(Head(ipAddrs), " "), acc))

\* one turn of the loop of getinterfaceIPs
intfItem(intf, acc) ==
    IF ~intf.addrErr.isNil THEN [acc EXCEPT !.errors = Append(@, intf.addrErr.msg)]
    ELSE addrLoop(intf.Name, intf.Addrs, acc)

RECURSIVE intfLoop(_, _)
\* the loop of getinterfaceIPs over the interfaces
intfLoop(interfaces, acc) ==
    IF Len(interfaces) = 0 THEN acc
    ELSE intfLoop(Tail(interfaces), intfItem(Head(interfaces), acc))

\* getinterfaceIPs, lines 226-238
enumResult(r) ==
    IF Len(r.errors) > 0
    THEN [ips |-> StableSort(r.ips), err |-> Errorf0(Join(r.errors, <<"\n">>))]
    ELSE [ips |-> StableSort(r.ips), err |-> Nil]

\* getinterfaceIPs
getinterfaceIPs(interfaces) ==
    enumResult(intfLoop(interfaces, [ips |-> <<>>, errors |-> <<>>]))

----------------------------------------------------------------------------
(* ips.go: selection *)

NoMatchText == "None of the interface specifications were able to match\nSpecifications: "

\* the error findIPWithSpecs returns when nothing matches
NoMatchError(rules, ips) ==
    Error(<<NoMatchText>>
          \o FormatSlice([i \in 1..Len(rules) |-> String(rules[i])])
          \o <<"\nInterfaces IPs: ">>
          \o FormatSlice([i \in 1..Len(ips) |-> IIPString(ips[i])]))

\* lines 62-67: the counter at the step on iip
nextIndex(index, iface, iip) == IF iface # iip.Name THEN 0 ELSE index + 1

RECURSIVE scanIPs(_, _, _, _, _, _)
RECURSIVE scanStep(_, _, _, _, _)
\* the inner loop of findIPWithSpecs from position i on, entered with the
\* counter and the interface name the earlier steps left
scanIPs(r, spec, ips, i, index, iface) ==
    IF i > Len(ips) THEN [found |-> FALSE, ip |-> <<>>, steps |-> <<>>]
    ELSE scanStep(r, spec, ips, i, nextIndex(index, iface, ips[i]))

\* lines 68-70: the step at position i, with its counter
scanStep(r, spec, ips, i, index) ==
    IF Match(spec, index, ips[i])
    THEN [found |-> TRUE, ip |-> IPString(ips[i]),
          steps |-> <<[rule |-> r, pos |-> i, index |-> index]>>]
    ELSE [scanIPs(r, spec, ips, i + 1, index, ips[i].Name)
             EXCEPT !.steps = <<[rule |-> r, pos |-> i, index |-> index]>> \o @]

RECURSIVE scanSpecs(_, _, _)
RECURSIVE scanSpec(_, _, _, _)
\* the outer loop of findIPWithSpecs from rule r on
scanSpecs(rules, ips, r) ==
    IF r > Len(rules)
    THEN [ip |-> <<>>, err |-> NoMatchError(rules, ips), visited |-> <<>>]
    ELSE scanSpec(rules, ips, r, scanIPs(r, rules[r], ips, 1, 0, <<>>))

\* one turn of the outer loop: s is what the inner loop found
scanSpec(rules, ips, r, s) ==
    IF s.found THEN [ip |-> s.ip, err |-> Nil, visited |-> s.steps]
    ELSE [scanSpecs(rules, ips, r + 1) EXCEPT !.visited = s.steps \o @]

RECURSIVE scanByAddress(_, _, _, _, _)
\* findIPWithSpecs with its loops exchanged: the addresses outside, the rules
\* inside
scanByAddress(rules, ips, i, index, iface) ==
    IF i > Len(ips)
    THEN [ip |-> <<>>, err |-> NoMatchError(rules, ips), visited |-> <<>>]
    ELSE IF \E r \in 1..Len(rules) :
               Match(rules[r], nextIndex(index, iface, ips[i]), ips[i])
    THEN [ip |-> IPString(ips[i]), err |-> Nil, visited |-> <<>>]
    ELSE scanByAddress(rules, ips, i + 1, nextIndex(index, iface, ips[i]),
                       ips[i].Name)

findIPWithSpecs_AddressFirst(rules, ips) == scanByAddress(rules, ips, 1, 0, <<>>)

\* findIPWithSpecs; visited lists the steps of its scan
findIPWithSpecs(rules, ips) == scanSpecs(rules, ips, 1)

----------------------------------------------------------------------------
(* Inputs of the model *)

\* specification strings: every form of the grammar, and malformed ones
sInet == <<"i", "n", "e", "t">>
sInet6 == <<"i", "n", "e", "t", "6">>
sEth0 == <<"e", "t", "h", "0">>
sEth0i0 == <<"e", "t", "h", "0", "[", "0", "]">>
sEth0i1 == <<"e", "t", "h", "0", "[", "1", "]">>
sEth0i2 == <<"e", "t", "h", "0", "[", "2", "]">>
sEth0v4 == <<"e", "t", "h", "0", ":", "i", "n", "e", "t">>
sEth0v6 == <<"e", "t", "h", "0", ":", "i", "n", "e", "t", "6">>
sEth1 == <<"e", "t", "h", "1">>
sLo == <<"l", "o">>
sNet192 == <<"1", "9", "2", ".", "1", "6", "8", ".", "0", ".", "0", "/", "1",
    "6">>
sNet10 == <<"1", "0", ".", "0", ".", "0", ".", "0", "/", "8">>
sNetFe80 == <<"f", "e", "8", "0", ":", ":", "/", "1", "0">>
sEmpty == <<>>
sOpen == <<"e", "t", "h", "0", "[">>
sInet4 == <<"e", "t", "h", "0", ":", "i", "n", "e", "t", "4">>
sBigIndex == <<"e", "t", "h", "0", "[", "9", "9", "9", "9", "9", "9", "9",
    "9", "9", "9", "9", "9", "9", "9", "9", "9", "9", "9", "9", "9", "]">>
sVerb == <<"%", "d">>
sPercent == <<"e", "t", "h", "0", "%", "%">>
sBadMask == <<"1", "0", ".", "0", ".", "0", ".", "0", "/", "3", "3">>

\* address strings as Addr.String() reports them
a127 == <<"1", "2", "7", ".", "0", ".", "0", ".", "1", "/", "8">>
aLoop6 == <<":", ":", "1", "/", "1", "2", "8">>
a10_6 == <<"1", "0", ".", "0", ".", "0", ".", "6", "/", "2", "4">>
a10_5Fe80 == <<"1", "0", ".", "0", ".", "0", ".", "5", "/", "2", "4", " ",
    "f", "e", "8", "0", ":", ":", "1", "/", "6", "4">>
aFe80 == <<"f", "e", "8", "0", ":", ":", "1", "/", "6", "4">>
a192 == <<"1", "9", "2", ".", "1", "6", "8", ".", "5", ".", "5", "/", "1",
    "6">>
a192_1 == <<"1", "9", "2", ".", "1", "6", "8", ".", "1", ".", "1", "/", "2",
    "4">>
aJunk10 == <<"j", "u", "n", "k", " ", "1", "0", ".", "0", ".", "0", ".", "7",
    "/", "2", "4">>

\* interface names
nEth0 == <<"e", "t", "h", "0">>
nEth1 == <<"e", "t", "h", "1">>
nEth2 == <<"e", "t", "h", "2">>
nWlan0 == <<"w", "l", "a", "n", "0">>
nLo == <<"l", "o">>

\* the specification strings of the model
SpecStrings == {sInet, sInet6, sEth0, sEth0i0, sEth0i1, sEth0i2, sEth0v4, sEth0v6,
                sEth1, sLo, sNet192, sNet10, sNetFe80,
                sEmpty, sOpen, sInet4, sBigIndex, sVerb, sPercent, sBadMask}

\* those that callers put in lists
ListSpecStrings == {sInet, sInet6, sEth0, sEth0i1, sEth0v4, sNet192, sOpen, sVerb}

\* those handed, parsed, to findIPWithSpecs
RuleStrings == {sInet, sEth0i0, sEth0i1, sEth0v6, sNet192}

\* sequences over S of at most n items
SeqsUpTo(S, n) == UNION {[1..k -> S] : k \in 0..n}

\* the elements of list at the positions in idx, in the order of the list
RECURSIVE Pick(_, _, _)
Pick(list, idx, i) ==
    IF i > Len(list) THEN <<>>
    ELSE (IF i \in idx THEN <<list[i]>> ELSE <<>>) \o Pick(list, idx, i + 1)

\* interfaces a host may have, in the order the operating system lists them
IfCandidates == <<
    [Name |-> nEth1, addrErr |-> Nil, Addrs |-> <<a192>>],
    [Name |-> nLo, addrErr |-> Nil, Addrs |-> <<a127, aLoop6>>],
    [Name |-> nEth0, addrErr |-> Nil, Addrs |-> <<a10_6, a10_5Fe80>>],
    [Name |-> nEth0, addrErr |-> Nil, Addrs |-> <<aFe80>>],
    [Name |-> nEth2, addrErr |-> Error(<<"route ip+net: no such network interface">>),
     Addrs |-> <<>>],
    [Name |-> nWlan0, addrErr |-> Nil, Addrs |-> <<aJunk10>>],
    [Name |-> <<>>, addrErr |-> Nil, Addrs |-> <<a192_1>>] >>

\* a host: the result of net.Interfaces(), each interface with the result of
\* its Addrs()
Hosts ==
    {[err |-> Nil, interfaces |-> Pick(IfCandidates, idx, 1)] :
        idx \in {x \in SUBSET (1..Len(IfCandidates)) :
                    /\ Cardinality(x) <= MaxIfaces
                    /\ \A i, j \in x : i # j => IfCandidates[i].Name # IfCandidates[j].Name}}
    \cup {[err |-> Error(<<"route ip+net: netlinkrib: operation not permitted">>),
           interfaces |-> <<>>]}

\* a host that is not consulted
NoHost == [err |-> Nil, interfaces |-> <<>>]

\* addresses handed directly to the selector and the matcher
IIPs == {[Name |-> nEth0, IP |-> ParseCIDR(a10_6).ip],
         [Name |-> nEth0, IP |-> <<10, 0, 0, 5>>],
         [Name |-> nEth0, IP |-> ParseCIDR(aFe80).ip],
         [Name |-> nLo, IP |-> ParseCIDR(a127).ip],
         [Name |-> <<>>, IP |-> ParseCIDR(a192_1).ip]}

\* address lists without repetition of at most n entries
IIPLists(n) == {l \in SeqsUpTo(IIPs, n) : \A i, j \in 1..Len(l) : i # j => l[i] # l[j]}

----------------------------------------------------------------------------
(* The calls *)

NoArg == [spec |-> ZeroSpec, index |-> 0, iip |-> [Name |-> <<>>, IP |-> <<>>]]

\* the state a call starts from.  The functions keep nothing between calls:
\* a behaviour is one call.
Fresh(h) ==
    /\ host = h
    /\ op = "none"
    /\ pc = "start"
    /\ specList = <<>>
    /\ specs = <<>>
    /\ interfaceIPs = <<>>
    /\ enumerated = FALSE
    /\ interfaceIPsErr = Nil
    /\ visited = <<>>
    /\ rendered = <<>>
    /\ matched = FALSE
    /\ matchArg = NoArg
    /\ ip = <<>>
    /\ err = Nil

Init == \E h \in Hosts : Fresh(h)

\* a default that takes any interface
DefaultSpecList_Wildcard == <<sInet>>

\* the default GetIP uses for no specification
DefaultSpecList == <<sEth0v4>>

\* GetIP going on with the rules that parsed
GetIP_Parse_Lenient(list) ==
    /\ pc = "start"
    /\ LET effective == IF Len(list) = 0 THEN DefaultSpecList ELSE list
           p == parseInterfaceSpecs(effective)
       IN  /\ op' = "GetIP"
           /\ specList' = list
           /\ specs' = p.specs
           /\ ip' = <<>>
           /\ err' = p.err
           /\ pc' = "interfaces"
    /\ interfaceIPs' = <<>>
    /\ enumerated' = FALSE
    /\ interfaceIPsErr' = Nil
    /\ visited' = <<>>
    /\ rendered' = <<>>
    /\ matched' = FALSE
    /\ matchArg' = NoArg
    /\ UNCHANGED host

\* GetIP, lines 15-25: default, parse, return on a parse error
GetIP_Parse(list) ==
    /\ pc = "start"
    /\ LET effective == IF Len(list) = 0 THEN DefaultSpecList ELSE list
           p == parseInterfaceSpecs(effective)
       IN  /\ op' = "GetIP"
           /\ specList' = list
           /\ specs' = p.specs
           /\ ip' = <<>>
           /\ err' = p.err
           /\ pc' = IF ~p.err.isNil THEN "done" ELSE "interfaces"
    /\ interfaceIPs' = <<>>
    /\ enumerated' = FALSE
    /\ interfaceIPsErr' = Nil
    /\ visited' = <<>>
    /\ rendered' = <<>>
    /\ matched' = FALSE
    /\ matchArg' = NoArg
    /\ UNCHANGED host

\* GetIP, lines 27-31: net.Interfaces()
GetIP_Interfaces ==
    /\ pc = "interfaces"
    /\ err' = host.err
    /\ pc' = IF ~host.err.isNil THEN "done" ELSE "enumerate"
    /\ UNCHANGED <<host, op, specList, specs, interfaceIPs, enumerated,
                   interfaceIPsErr, visited, rendered, matched, matchArg, ip>>

\* GetIP returning on any error of getinterfaceIPs
GetIP_Enumerate_Strict ==
    /\ pc = "enumerate"
    /\ LET e == getinterfaceIPs(host.interfaces)
       IN  /\ interfaceIPs' = e.ips
           /\ interfaceIPsErr' = e.err
           /\ enumerated' = TRUE
           /\ IF ~e.err.isNil
              THEN err' = e.err /\ pc' = "done"
              ELSE err' = Nil /\ pc' = "select"
    /\ UNCHANGED <<host, op, specList, specs, visited, rendered, matched, matchArg, ip>>

\* GetIP, lines 33-47: getinterfaceIPs, return when it failed with nothing
GetIP_Enumerate ==
    /\ pc = "enumerate"
    /\ LET e == getinterfaceIPs(host.interfaces)
       IN  /\ interfaceIPs' = e.ips
           /\ interfaceIPsErr' = e.err
           /\ enumerated' = TRUE
           /\ IF ~e.err.isNil /\ Len(e.ips) < 1
              THEN err' = e.err /\ pc' = "done"
              ELSE err' = Nil /\ pc' = "select"
    /\ UNCHANGED <<host, op, specList, specs, visited, rendered, matched, matchArg, ip>>

\* GetIP, line 49: findIPWithSpecs
GetIP_Select ==
    /\ pc = "select"
    /\ LET f == findIPWithSpecs(specs, interfaceIPs)
       IN  /\ ip' = f.ip
           /\ err' = f.err
           /\ visited' = f.visited
    /\ pc' = "done"
    /\ UNCHANGED <<host, op, specList, specs, interfaceIPs, enumerated,
                   interfaceIPsErr, rendered, matched, matchArg>>

\* GetIP, lines 22-49, as a function of the list it parses and of the host
GetIPFind(specs0, e) ==
    IF ~e.err.isNil /\ Len(e.ips) < 1 THEN [ip |-> <<>>, err |-> e.err]
    ELSE [ip |-> findIPWithSpecs(specs0, e.ips).ip,
          err |-> findIPWithSpecs(specs0, e.ips).err]

GetIPParsed(p, h) ==
    IF ~p.err.isNil THEN [ip |-> <<>>, err |-> p.err]
    ELSE IF ~h.err.isNil THEN [ip |-> <<>>, err |-> h.err]
    ELSE GetIPFind(p.specs, getinterfaceIPs(h.interfaces))

GetIPWith(list, h) == GetIPParsed(parseInterfaceSpecs(list), h)

\* a call is made of a function that has not been entered yet
Calling == pc = "start"

Next == \/ Calling /\ \E list \in SeqsUpTo(ListSpecStrings, MaxSpecs) : GetIP_Parse(list)
        \/ GetIP_Interfaces
        \/ GetIP_Enumerate
        \/ GetIP_Select

\* GetIP called on a host
Spec == Init /\ [][Next]_vars

\* findIPWithSpecs called with parsed rules and an address list
CallFindIPWithSpecs(list, ips) ==
    /\ pc = "start"
    /\ LET f == findIPWithSpecs(parseInterfaceSpecs(list).specs, ips)
       IN  /\ ip' = f.ip
           /\ err' = f.err
           /\ visited' = f.visited
    /\ op' = "findIPWithSpecs"
    /\ specList' = list
    /\ specs' = parseInterfaceSpecs(list).specs
    /\ interfaceIPs' = ips
    /\ rendered' = <<>>
    /\ matched' = FALSE
    /\ matchArg' = NoArg
    /\ pc' = "done"
    /\ UNCHANGED <<host, enumerated, interfaceIPsErr>>

\* parseInterfaceSpecs called with a list of strings
CallParseInterfaceSpecs(list) ==
    /\ pc = "start"
    /\ LET p == parseInterfaceSpecs(list)
       IN  specs' = p.specs /\ err' = p.err
    /\ op' = "parseInterfaceSpecs"
    /\ specList' = list
    /\ interfaceIPs' = <<>>
    /\ visited' = <<>>
    /\ rendered' = <<>>
    /\ matched' = FALSE
    /\ matchArg' = NoArg
    /\ ip' = <<>>
    /\ pc' = "done"
    /\ UNCHANGED <<host, enumerated, interfaceIPsErr>>

\* parseInterfaceSpec called with one string, and the rule it returns rendered
CallParseInterfaceSpec(s) ==
    /\ pc = "start"
    /\ LET p == parseInterfaceSpec(s)
       IN  /\ specs' = <<p.spec>>
           /\ err' = p.err
           /\ rendered' = String(p.spec)
    /\ op' = "parseInterfaceSpec"
    /\ specList' = <<s>>
    /\ interfaceIPs' = <<>>
    /\ visited' = <<>>
    /\ matched' = FALSE
    /\ matchArg' = NoArg
    /\ ip' = <<>>
    /\ pc' = "done"
    /\ UNCHANGED <<host, enumerated, interfaceIPsErr>>

\* Match called on a parsed rule with a counter and an address
CallMatch(s, index, iip) ==
    /\ pc = "start"
    /\ parseInterfaceSpec(s).err.isNil
    /\ LET spec == parseInterfaceSpec(s).spec
       IN  /\ matched' = Match(spec, index, iip)
           /\ matchArg' = [spec |-> spec, index |-> index, iip |-> iip]
           /\ specs' = <<spec>>
    /\ op' = "Match"
    /\ specList' = <<s>>
    /\ interfaceIPs' = <<>>
    /\ visited' = <<>>
    /\ rendered' = <<>>
    /\ ip' = <<>>
    /\ err' = Nil
    /\ pc' = "done"
    /\ UNCHANGED <<host, enumerated, interfaceIPsErr>>

LibInit == Fresh(NoHost)

LibNext ==
    \/ Calling /\ \E list \in SeqsUpTo(RuleStrings, MaxSpecs), ips \in IIPLists(MaxIPs) :
                     CallFindIPWithSpecs(list, ips)
    \/ Calling /\ \E list \in SeqsUpTo(ListSpecStrings, MaxSpecs) :
                     CallParseInterfaceSpecs(list)
    \/ Calling /\ \E s \in SpecStrings : CallParseInterfaceSpec(s)
    \/ Calling /\ \E s \in SpecStrings, index \in 0..MaxIPs, iip \in IIPs :
                     CallMatch(s, index, iip)

\* the functions of ips.go called on their own
LibSpec == LibInit /\ [][LibNext]_vars

----------------------------------------------------------------------------
(* Properties *)

Done(f) == op = f /\ pc = "done"

\* e is the error of a selection that matched nothing
IsNoMatch(e) == ~e.isNil /\ Len(e.msg) > 0 /\ e.msg[1] = NoMatchText

\* the least element of a non-empty set of numbers
Min(S) == CHOOSE x \in S : \A y \in S : x <= y

\* the number of entries directly before position p that carry the interface
\* name of the entry at p
RunRank(ips, p) ==
    Cardinality({k \in 1..(p - 1) : \A m \in k..(p - 1) : ips[m].Name = ips[p].Name})

\* rule is satisfied by the entry at position p of ips
Satisfies(rule, ips, p) == Match(rule, RunRank(ips, p), ips[p])

Hits(rule, ips) == {p \in 1..Len(ips) : Satisfies(rule, ips, p)}

Matching(rules, ips) == {r \in 1..Len(rules) : Hits(rules[r], ips) # {}}

\* outIp and outErr are what selection by rule priority, then address order,
\* gives
SelectionIs(rules, ips, outIp, outErr) ==
    IF Matching(rules, ips) = {} THEN outIp = <<>> /\ IsNoMatch(outErr)
    ELSE /\ outErr = Nil
         /\ outIp = IPString(ips[Min(Hits(rules[Min(Matching(rules, ips))], ips))])

\* ips is in the order of ByInterfaceThenIP
IsSorted(ips) == \A i, j \in 1..Len(ips) : i < j => ~Less(ips[j], ips[i])

\* the positions of the well-formed and of the malformed items of a list
WellFormed(list) == {i \in 1..Len(list) : parseInterfaceSpec(list[i]).err.isNil}
Malformed(list) == (1..Len(list)) \ WellFormed(list)

\* GetIP has gone through selection
Selected ==
    /\ Done("GetIP")
    /\ enumerated
    /\ interfaceIPsErr.isNil \/ Len(interfaceIPs) > 0

\* C1: findIPWithSpecs returns the display string of the first address, in
\* list order, that satisfies the earliest rule satisfied by any address, and
\* the no-match error exactly when no rule is satisfied by any address.
C1_EarliestRuleFirstAddress ==
    Done("findIPWithSpecs") => SelectionIs(specs, interfaceIPs, ip, err)

\* an earlier rule wins over a later rule that matches an earlier address
C1_Witness ==
    /\ Done("findIPWithSpecs")
    /\ \E r1, r2 \in Matching(specs, interfaceIPs) :
          /\ r1 = Min(Matching(specs, interfaceIPs))
          /\ r1 < r2
          /\ Min(Hits(specs[r2], interfaceIPs)) < Min(Hits(specs[r1], interfaceIPs))
          /\ ip = IPString(interfaceIPs[Min(Hits(specs[r1], interfaceIPs))])
          /\ ip # IPString(interfaceIPs[Min(Hits(specs[r2], interfaceIPs))])

\* on a sorted list a single rule name[k] resolves to the address of rank k
\* of interface name, and to nothing when there is none
IndexedRuleTakesRank ==
    /\ Done("findIPWithSpecs")
    /\ IsSorted(interfaceIPs)
    /\ Len(specs) = 1
    /\ specs[1].HasIndex
    => LET same == {p \in 1..Len(interfaceIPs) : interfaceIPs[p].Name = specs[1].Name}
           at == {p \in same : Itoa(Cardinality({q \in same : q < p})) = specs[1].Index}
       IN  IF at = {} THEN ip = <<>> /\ IsNoMatch(err)
           ELSE err = Nil /\ \A p \in at : ip = IPString(interfaceIPs[p])

\* on a sorted list the counter of every step is the number of earlier
\* entries with the interface name of the step's entry
CounterIsRank ==
    Done("findIPWithSpecs") /\ IsSorted(interfaceIPs)
    => \A s \in 1..Len(visited) :
          visited[s].index =
              Cardinality({q \in 1..(visited[s].pos - 1) :
                              interfaceIPs[q].Name = interfaceIPs[visited[s].pos].Name})

\* C2: on an address list sorted by interface name and 16-byte address, a
\* rule name[k] resolves to the address of zero-based rank k among the
\* addresses of interface name, and at every step of the scan the counter is
\* the number of earlier addresses with the interface name of the current one.
C2_PositionalIndex == IndexedRuleTakesRank /\ CounterIsRank

\* C3: parsing a valid specification string and rendering the rule with
\* String() gives the string back.
C3_RoundTrip ==
    Done("parseInterfaceSpec") /\ err.isNil => rendered = specList[1]

\* C4: parseInterfaceSpecs returns the rules of the well-formed items in
\* their order, an error exactly when an item is malformed, and as its message
\* the messages of the malformed items, in their order, joined by newlines.
C4_Aggregation ==
    Done("parseInterfaceSpecs")
    => /\ specs = Pick([i \in 1..Len(specList) |-> parseInterfaceSpec(specList[i]).spec],
                       WellFormed(specList), 1)
       /\ err.isNil <=> Malformed(specList) = {}
       /\ Malformed(specList) # {}
          => err.msg = Join(Pick([i \in 1..Len(specList) |->
                                     parseInterfaceSpec(specList[i]).err.msg],
                                 Malformed(specList), 1),
                            <<"\n">>)

\* GetIP has gone through selection with one rule, a bare interface name
BareNameSelected ==
    /\ Selected
    /\ Len(specs) = 1
    /\ specs[1].Spec = specs[1].Name
    /\ specs[1].Name # <<>>

\* the positions of the IPv4 and of the IPv6 addresses of the bare name's
\* interface
BareV4 == {p \in 1..Len(interfaceIPs) :
              interfaceIPs[p].Name = specs[1].Name /\ IsIPv4(interfaceIPs[p])}
BareV6 == {p \in 1..Len(interfaceIPs) :
              interfaceIPs[p].Name = specs[1].Name /\ ~IsIPv4(interfaceIPs[p])}

\* C5 as stated: a bare name resolves to an IPv4 address of its interface
\* when the interface has one, and to an IPv6 address of it when it has none.
C5_BareNameFallsBackToIPv6 ==
    BareNameSelected
    => /\ BareV4 # {} => err = Nil /\ \E p \in BareV4 : ip = IPString(interfaceIPs[p])
       /\ BareV4 = {} /\ BareV6 # {}
          => err = Nil /\ \E p \in BareV6 : ip = IPString(interfaceIPs[p])

\* C5 amended: a bare name resolves to the first IPv4 address of its interface
\* when the interface has one, and matches nothing when the interface has
\* none, whatever IPv6 addresses it has.
C5_BareNameIsIPv4Only ==
    BareNameSelected
    => IF BareV4 # {}
       THEN err = Nil /\ ip = IPString(interfaceIPs[Min(BareV4)])
       ELSE ip = <<>> /\ IsNoMatch(err)

\* a bare name on an interface that has IPv6 addresses only
C5_Witness ==
    BareNameSelected /\ BareV4 = {} /\ BareV6 # {} /\ ip = <<>> /\ IsNoMatch(err)

\* every rule is a wildcard rule
WildcardOnly ==
    Len(specs) > 0 /\ \A r \in 1..Len(specs) : specs[r].Name = Wildcard

\* t is the display string of a loopback address
IsLoopbackText(t) ==
    \/ t = <<":", ":", "1">>
    \/ Len(t) >= 4 /\ SubSeq(t, 1, 4) = <<"1", "2", "7", ".">>

\* C6: with wildcard rules only, the address GetIP returns is not a loopback
\* address, and GetIP fails with the no-match error when every address of the
\* host is a loopback address.
C6_WildcardSkipsLoopback ==
    Selected /\ WildcardOnly
    => /\ err.isNil
          => /\ ~IsLoopbackText(ip)
             /\ \E p \in 1..Len(interfaceIPs) :
                   ip = IPString(interfaceIPs[p]) /\ ~IsLoopback(interfaceIPs[p].IP)
       /\ (\A p \in 1..Len(interfaceIPs) : IsLoopback(interfaceIPs[p].IP))
          => ip = <<>> /\ IsNoMatch(err)

\* a loopback address of the rule's version is passed over for a later one
C6_Witness ==
    /\ Selected
    /\ WildcardOnly
    /\ err.isNil
    /\ \E p, q \in 1..Len(interfaceIPs) :
          /\ p < q
          /\ IsLoopback(interfaceIPs[p].IP)
          /\ specs[1].IPv6 # IsIPv4(interfaceIPs[p])
          /\ ip = IPString(interfaceIPs[q])

\* the interfaces of host h whose Addrs() succeeds
Answering(h) == {i \in 1..Len(h.interfaces) : h.interfaces[i].addrErr.isNil}

\* the entries of the address strings of interface intf
EntriesOf(intf) ==
    UNION {Range(Split(intf.Addrs[j], " ")) : j \in 1..Len(intf.Addrs)}

\* what there is to gather on host h: every entry that parses, of every
\* interface that answers
Gatherable(h) ==
    UNION {{[Name |-> h.interfaces[i].Name, IP |-> ParseCIDR(e).ip] :
               e \in {x \in EntriesOf(h.interfaces[i]) : ParseCIDR(x).ok}} :
           i \in Answering(h)}

\* some interface of h does not answer, or some entry does not parse
Failing(h) ==
    \/ Answering(h) # 1..Len(h.interfaces)
    \/ \E i \in Answering(h) : \E e \in EntriesOf(h.interfaces[i]) : ~ParseCIDR(e).ok

\* C7: enumeration gathers every address that can be gathered, whatever
\* fails beside it; GetIP returns the enumeration error when errors occurred
\* and nothing was gathered, and otherwise exactly the selection over what
\* was gathered.
C7_EnumerationErrors ==
    op = "GetIP" /\ enumerated
    => /\ Range(interfaceIPs) = Gatherable(host)
       /\ Len(interfaceIPs) = Cardinality(Gatherable(host))
       /\ IsSorted(interfaceIPs)
       /\ interfaceIPsErr.isNil <=> ~Failing(host)
       /\ pc = "done"
          => IF Failing(host) /\ Len(interfaceIPs) = 0
             THEN ip = <<>> /\ ~err.isNil /\ err = interfaceIPsErr
             ELSE SelectionIs(specs, interfaceIPs, ip, err)

\* an interface fails, and GetIP resolves to an address of an interface
\* listed after it
C7_Witness ==
    /\ Selected
    /\ ~interfaceIPsErr.isNil
    /\ err.isNil
    /\ \E i, j \in 1..Len(host.interfaces) :
          /\ i < j
          /\ ~host.interfaces[i].addrErr.isNil
          /\ \E p \in 1..Len(interfaceIPs) :
                /\ interfaceIPs[p].Name = host.interfaces[j].Name
                /\ ip = IPString(interfaceIPs[p])

\* C8: GetIP called with no specification returns what GetIP called with
\* the single specification eth0:inet returns on the same host.
C8_DefaultIsEth0Inet ==
    Done("GetIP")
    => IF Len(specList) = 0
       THEN [ip |-> ip, err |-> err] = GetIPWith(<<sEth0v4>>, host)
       ELSE [ip |-> ip, err |-> err] = GetIPWith(specList, host)

\* GetIP called with no specification resolves to the IPv4 address of eth0
\* on a host that has other addresses
C8_Witness ==
    /\ Done("GetIP")
    /\ Len(specList) = 0
    /\ err.isNil
    /\ \E p, q \in 1..Len(interfaceIPs) :
          /\ interfaceIPs[p].Name = nEth0
          /\ ip = IPString(interfaceIPs[p])
          /\ interfaceIPs[q].Name # nEth0

\* C9: a CIDR rule matches an address exactly when the address is in the
\* rule's network, whatever the interface name and the counter.
C9_CIDRMatchIsContainment ==
    Done("Match") /\ ~matchArg.spec.Network.isNil
    => (matched <=> Contains(matchArg.spec.Network, matchArg.iip.IP))

\* C10: when an item of the specification list is malformed, GetIP returns
\* an empty address and the error of parseInterfaceSpecs, and neither
\* enumerates the interfaces nor selects.
C10_ParseErrorIsFatal ==
    op = "GetIP" /\ Malformed(specList) # {}
    => /\ pc = "done"
       /\ ip = <<>>
       /\ ~err.isNil
       /\ err = parseInterfaceSpecs(specList).err
       /\ ~enumerated
       /\ interfaceIPs = <<>>
       /\ visited = <<>>

\* GetIP fails on a malformed item although a well-formed item of the list
\* matches an address of the host
C10_Witness ==
    /\ Done("GetIP")
    /\ Malformed(specList) # {}
    /\ host.err.isNil
    /\ Matching(specs, getinterfaceIPs(host.interfaces).ips) # {}
    /\ ip = <<>>

====
